---- MODULE Spec2Model ----
\* A model of d3_file_cleaner.py: the filename parser, the version model,
\* the directory scan, the retention plan and the interactive driver that
\* confirms and performs the deletion, one directory after the other. The
\* sizes of the files and the totals of the final summary are left out.
EXTENDS Integers, Sequences, FiniteSets, TLC

\* ---------------------------------------------------------------- bounds

\* The most files one directory holds.
MaxFiles == 3

\* The largest number of versions the user asks to keep.
MaxKeep == 2

\* The number of sub-directories of the directory given on the command line.
NumDirs == 2

\* ------------------------------------------------------------ characters

\* A file name is a sequence of one-character strings.
Digits == <<"0","1","2","3","4","5","6","7","8","9">>

\* [a-zA-Z], in code point order.
AsciiLetters ==
  <<"A","B","C","D","E","F","G","H","I","J","K","L","M",
    "N","O","P","Q","R","S","T","U","V","W","X","Y","Z",
    "a","b","c","d","e","f","g","h","i","j","k","l","m",
    "n","o","p","q","r","s","t","u","v","w","x","y","z">>

IsDigit(c) == \E k \in 1..Len(Digits) : Digits[k] = c

IsAlpha(c) == \E k \in 1..Len(AsciiLetters) : AsciiLetters[k] = c

DigitVal(c) == (CHOOSE k \in 1..Len(Digits) : Digits[k] = c) - 1

\* The code point order of two letters (str.__lt__ on one-character strings).
Ord(c) == CHOOSE k \in 1..Len(AsciiLetters) : AsciiLetters[k] = c

\* The absent value of an Optional[str]: no character string equals it.
None == "None"

\* int() of a string of decimal digits.
RECURSIVE ParseInt(_)
ParseInt(ds) ==
  IF ds = <<>> THEN 0
  ELSE 10 * ParseInt(SubSeq(ds, 1, Len(ds) - 1)) + DigitVal(ds[Len(ds)])

AllDigits(s) == \A k \in 1..Len(s) : IsDigit(s[k])

SetMin(S) == CHOOSE x \in S : \A y \in S : x <= y

SetMax(S) == CHOOSE x \in S : \A y \in S : x >= y

Min2(a, b) == IF a <= b THEN a ELSE b

\* ------------------------------------------------------------- the files

\* The files a scanned directory may hold; a path is an index into this table.
FileNames ==
  << <<"s","h","o","t","_","v","2","0","2","4","0","1","0","1",".","m","o","v">>,  \* 1 shot_v20240101.mov
     <<"s","h","o","t","_","v","2","0","2","4","0","3","0","1",".","m","o","v">>,  \* 2 shot_v20240301.mov
     <<"s","h","o","t","_","v","2","0","2","4","0","3","0","1","a",".","m","o","v">>,  \* 3 shot_v20240301a.mov
     <<"s","h","o","t","_","v","2","0","2","4","0","3","0","1","0","0","0","0",".","p","n","g">>,  \* 4 shot_v202403010000.png
     <<"s","h","o","t","_","v","2","0","2","4","1","3","0","1",".","m","o","v">>,  \* 5 shot_v20241301.mov
     <<"s","h","o","t","_","v","2","0","2","4","0","3","0","1","a","b",".","m","o","v">>,  \* 6 shot_v20240301ab.mov
     <<"l","o","g","o",".","p","n","g">>,  \* 7 logo.png
     <<"a","_","v","1",".","m","o","v">>,  \* 8 a_v1.mov
     <<"a","_","v","0","1",".","m","o","v">>,  \* 9 a_v01.mov
     <<"a","_","v","2",".","m","o","v">>,  \* 10 a_v2.mov
     <<"a","_","v","2","0","2","4","0","1","0","1",".","m","o","v">>,  \* 11 a_v20240101.mov
     <<"a","v","2","0","2","4","0","1","0","1",".","m","o","v">>,  \* 12 av20240101.mov
     <<"a","_","v","3",".","m","o","g">>,  \* 13 a_v3.mog
     <<"s","h","o","t","_","v","2","0","2","4","0","1","0","1",".","t","x","t">>   \* 14 shot_v20240101.txt
  >>

Paths == 1..Len(FileNames)

\* Path.name
PathName(file_path) == FileNames[file_path]

\* --------------------------------------------------------- parse_filename

\* str.rfind of one character: the last index holding it, 0 when there is none.
RFind(s, c) ==
  LET at == {k \in 1..Len(s) : s[k] = c}
  IN IF at = {} THEN 0 ELSE SetMax(at)

\* os.path.splitext on a bare file name: the extension starts at the last dot,
\* unless only dots precede it.
splitext(p) ==
  LET dotIndex == RFind(p, ".")
  IN IF dotIndex > 0 /\ \E k \in 1..(dotIndex - 1) : p[k] # "."
     THEN <<SubSeq(p, 1, dotIndex - 1), SubSeq(p, dotIndex, Len(p))>>
     ELSE <<p, <<>>>>

\* v(\d{8})(\d{4})?([a-zA-Z])?$ matched at position k of name: the match, when
\* there is one, runs to the end of the name.
DateMatchAt(name, k) ==
  /\ name[k] = "v"
  /\ LET rest == SubSeq(name, k + 1, Len(name))
         n == Len(rest)
     IN \/ n \in {8, 12} /\ AllDigits(rest)
        \/ /\ n \in {9, 13}
           /\ AllDigits(SubSeq(rest, 1, n - 1))
           /\ IsAlpha(rest[n])

\* _v(\d+)$ matched at position k of name.
NumberMatchAt(name, k) ==
  /\ k + 2 <= Len(name)
  /\ name[k] = "_"
  /\ name[k + 1] = "v"
  /\ AllDigits(SubSeq(name, k + 2, Len(name)))

\* re.search: the leftmost position where the pattern matches, 0 when none.
date_search(name) ==
  LET at == {k \in 1..Len(name) : DateMatchAt(name, k)}
  IN IF at = {} THEN 0 ELSE SetMin(at)

number_search(name) ==
  LET at == {k \in 1..Len(name) : NumberMatchAt(name, k)}
  IN IF at = {} THEN 0 ELSE SetMin(at)

\* The None that parse_filename returns for the version: like the empty string
\* it is false in "if version_str:", and no matched version is empty.
NoVersion == <<>>

\* The date pattern without its end anchor: the leftmost v followed by eight
\* digits matches, whatever follows the optional time and letter.
date_search_unanchored(name) ==
  LET at == {k \in 1..Len(name) :
               /\ k + 8 <= Len(name)
               /\ name[k] = "v"
               /\ AllDigits(SubSeq(name, k + 1, k + 8))}
  IN IF at = {} THEN 0 ELSE SetMin(at)

\* parse_filename with the unanchored date pattern: group(0) is v, the eight
\* digits, four more when they follow, and a letter when one follows.
parse_filename_unanchored(filename) ==
  LET name == splitext(filename)[1]
      ext == splitext(filename)[2]
      d == date_search_unanchored(name)
      t == IF d + 12 <= Len(name) /\ AllDigits(SubSeq(name, d + 9, d + 12))
           THEN d + 12 ELSE d + 8
      e == IF t + 1 <= Len(name) /\ IsAlpha(name[t + 1]) THEN t + 1 ELSE t
      n == number_search(name)
  IN IF d > 0
     THEN [base |-> SubSeq(name, 1, d - 1), version |-> SubSeq(name, d, e), ext |-> ext]
     ELSE IF n > 0
     THEN [base |-> SubSeq(name, 1, n - 1),
           version |-> SubSeq(name, n, Len(name)), ext |-> ext]
     ELSE [base |-> name, version |-> NoVersion, ext |-> ext]

\* parse_filename: (base name, version string or None, extension).
parse_filename(filename) ==
  LET name == splitext(filename)[1]
      ext == splitext(filename)[2]
      d == date_search(name)
      n == number_search(name)
  IN IF d > 0
     THEN [base |-> SubSeq(name, 1, d - 1),
           version |-> SubSeq(name, d, Len(name)), ext |-> ext]
     ELSE IF n > 0
     THEN [base |-> SubSeq(name, 1, n - 1),
           version |-> SubSeq(name, n, Len(name)), ext |-> ext]
     ELSE [base |-> name, version |-> NoVersion, ext |-> ext]

\* ------------------------------------------------------------ VersionInfo

IsLeap(y) == (y % 4 = 0 /\ y % 100 # 0) \/ y % 400 = 0

DaysInMonth(y, m) ==
  IF m = 2 THEN (IF IsLeap(y) THEN 29 ELSE 28)
  ELSE IF m \in {4, 6, 9, 11} THEN 30 ELSE 31

\* What the absent date attribute of a VersionInfo holds in the model; its
\* absent version_num holds -1, which int() of digits never returns.
Unset == <<>>

\* datetime.strptime(ds, '%Y%m%d') on eight digits and
\* datetime.strptime(ds, '%Y%m%d%H%M') on twelve: every field takes two digits
\* (four for the year) or the parse raises ValueError, and so does a date that
\* the calendar does not hold. The result is <<year, month, day, hour, minute>>.
strptime(ds) ==
  LET y == ParseInt(SubSeq(ds, 1, 4))
      m == ParseInt(SubSeq(ds, 5, 6))
      d == ParseInt(SubSeq(ds, 7, 8))
      H == IF Len(ds) = 12 THEN ParseInt(SubSeq(ds, 9, 10)) ELSE 0
      M == IF Len(ds) = 12 THEN ParseInt(SubSeq(ds, 11, 12)) ELSE 0
  IN IF /\ y >= 1
        /\ m \in 1..12
        /\ d >= 1 /\ d <= DaysInMonth(y, m)
        /\ H \in 0..23
        /\ M \in 0..59
     THEN [raised |-> None, date |-> <<y, m, d, H, M>>]
     ELSE [raised |-> "ValueError", date |-> Unset]

\* VersionInfo.__init__: the object built from a version string, or the
\* ValueError it raises.
VersionInfo(version_str) ==
  LET is_date_version == Len(version_str) >= 1 /\ version_str[1] = "v"
      is_numeric_version ==
        Len(version_str) >= 2 /\ version_str[1] = "_" /\ version_str[2] = "v"
      has_letter == Len(version_str) >= 1 /\ IsAlpha(version_str[Len(version_str)])
      letter == IF is_date_version /\ has_letter
                THEN version_str[Len(version_str)] ELSE None
      clean_version == IF has_letter
                       THEN SubSeq(version_str, 1, Len(version_str) - 1)
                       ELSE version_str
      parsed == strptime(SubSeq(clean_version, 2, Len(clean_version)))
  IN IF is_date_version
     THEN IF Len(clean_version) \in {9, 13}
                /\ AllDigits(SubSeq(clean_version, 2, Len(clean_version)))
                /\ parsed.raised = None
          THEN [raised |-> None, is_date_version |-> TRUE,
                is_numeric_version |-> FALSE, letter |-> letter,
                date |-> parsed.date, version_num |-> -1]
          ELSE [raised |-> "ValueError", is_date_version |-> TRUE,
                is_numeric_version |-> FALSE, letter |-> letter,
                date |-> Unset, version_num |-> -1]
     ELSE IF is_numeric_version
          THEN IF Len(version_str) >= 3 /\ AllDigits(SubSeq(version_str, 3, Len(version_str)))
               THEN [raised |-> None, is_date_version |-> FALSE,
                     is_numeric_version |-> TRUE, letter |-> None,
                     date |-> Unset,
                     version_num |-> ParseInt(SubSeq(version_str, 3, Len(version_str)))]
               ELSE [raised |-> "ValueError", is_date_version |-> FALSE,
                     is_numeric_version |-> TRUE, letter |-> None,
                     date |-> Unset, version_num |-> -1]
          ELSE [raised |-> "ValueError", is_date_version |-> FALSE,
                is_numeric_version |-> FALSE, letter |-> None,
                date |-> Unset, version_num |-> -1]

\* datetime.__lt__: the order of <<year, month, day, hour, minute>>.
DateLess(a, b) ==
  \E k \in 1..5 : a[k] < b[k] /\ \A j \in 1..(k - 1) : a[j] = b[j]

\* VersionInfo.__lt__ raises ValueError on versions of different families.
LtRaises(self, other) ==
  /\ ~(self.is_date_version /\ other.is_date_version)
  /\ ~(self.is_numeric_version /\ other.is_numeric_version)

\* VersionInfo.__lt__ with the letter rule inverted: on equal dates a version
\* without a letter counts as the newer one.
LtLetterlessNewer(self, other) ==
  IF self.is_date_version /\ other.is_date_version
  THEN IF self.date # other.date THEN DateLess(self.date, other.date)
       ELSE IF self.letter = None /\ other.letter = None THEN FALSE
       ELSE IF self.letter = None THEN FALSE
       ELSE IF other.letter = None THEN TRUE
       ELSE Ord(self.letter) < Ord(other.letter)
  ELSE self.version_num < other.version_num

\* VersionInfo.__lt__ on two versions of one family: self is older than other.
Lt(self, other) ==
  IF self.is_date_version /\ other.is_date_version
  THEN IF self.date # other.date THEN DateLess(self.date, other.date)
       ELSE IF self.letter = None /\ other.letter = None THEN FALSE
       ELSE IF self.letter = None THEN TRUE
       ELSE IF other.letter = None THEN FALSE
       ELSE Ord(self.letter) < Ord(other.letter)
  ELSE self.version_num < other.version_num

\* parse_filename(file_path.name) of every file, and VersionInfo of the version
\* string it returns, computed once.
Parsed == [f \in Paths |-> parse_filename(PathName(f))]

Classified == [f \in Paths |-> VersionInfo(Parsed[f].version)]

\* --------------------------------------------------- find_latest_versions

\* Path(directory).glob('*.[mp][no][vg]') matches a name on its last four
\* characters.
GlobMatch(name) ==
  LET n == Len(name)
  IN /\ n >= 4
     /\ name[n - 3] = "."
     /\ name[n - 2] \in {"m", "p"}
     /\ name[n - 1] \in {"n", "o"}
     /\ name[n] \in {"v", "g"}

\* The files of a directory that the glob yields.
Globbed(files) == {f \in files : GlobMatch(PathName(f))}

\* The orders in which the glob may yield a set of files.
Orders(S) ==
  {s \in [1..Cardinality(S) -> S] : \A x, y \in 1..Cardinality(S) : s[x] = s[y] => x = y}

\* A Dict[str, List[...]] is the sequence of its items, in insertion order.
DictKeys(d) == {d[k].base_name : k \in 1..Len(d)}

\* files_by_base[base_name].append(item), creating the list when the key is new.
DictAppend(d, base_name, item) ==
  IF base_name \in DictKeys(d)
  THEN [k \in 1..Len(d) |->
          IF d[k].base_name = base_name
          THEN [d[k] EXCEPT !.files = Append(@, item)]
          ELSE d[k]]
  ELSE Append(d, [base_name |-> base_name, files |-> <<item>>])

\* The scan loop with the empty list created before the VersionInfo is built:
\* a file whose version is rejected leaves an empty group behind.
RECURSIVE ScanLoopGroupFirst(_, _, _)
ScanLoopGroupFirst(listing, files_by_base, unversioned_files) ==
  IF listing = <<>>
  THEN [files_by_base |-> files_by_base, unversioned_files |-> unversioned_files]
  ELSE LET file_path == Head(listing)
           p == Parsed[file_path]
           version_info == Classified[file_path]
           with_key == IF p.base \in DictKeys(files_by_base)
                       THEN files_by_base
                       ELSE Append(files_by_base, [base_name |-> p.base, files |-> <<>>])
       IN IF p.version # NoVersion
          THEN IF version_info.raised = None
               THEN ScanLoopGroupFirst(Tail(listing),
                      DictAppend(with_key, p.base, <<file_path, version_info>>),
                      unversioned_files)
               ELSE ScanLoopGroupFirst(Tail(listing), with_key, unversioned_files)
          ELSE ScanLoopGroupFirst(Tail(listing), files_by_base,
                                  Append(unversioned_files, file_path))

\* The loop over the globbed files: a versioned file joins the list of its base
\* name, a file whose version string VersionInfo rejects is skipped with a
\* warning, a file without a version joins the unversioned files.
RECURSIVE ScanLoop(_, _, _)
ScanLoop(listing, files_by_base, unversioned_files) ==
  IF listing = <<>>
  THEN [files_by_base |-> files_by_base, unversioned_files |-> unversioned_files]
  ELSE LET file_path == Head(listing)
           p == Parsed[file_path]
           version_info == Classified[file_path]
       IN IF p.version # NoVersion
          THEN IF version_info.raised = None
               THEN ScanLoop(Tail(listing),
                             DictAppend(files_by_base, p.base, <<file_path, version_info>>),
                             unversioned_files)
               ELSE ScanLoop(Tail(listing), files_by_base, unversioned_files)
          ELSE ScanLoop(Tail(listing), files_by_base,
                        Append(unversioned_files, file_path))

\* The check for mixed version types: some base name holds a date version and
\* a numeric version.
MixedVersionTypes(files_by_base) ==
  \E k \in 1..Len(files_by_base) :
    LET files == files_by_base[k].files
    IN /\ \E x \in 1..Len(files) : files[x][2].is_date_version
       /\ \E x \in 1..Len(files) : files[x][2].is_numeric_version

\* What find_latest_versions returns after its loop: the groups and the
\* unversioned files, or the ValueError of the check for mixed version types.
ScanResult(scanned) ==
  [raised |-> IF MixedVersionTypes(scanned.files_by_base) THEN "ValueError" ELSE None,
   files_by_base |-> scanned.files_by_base,
   unversioned_files |-> scanned.unversioned_files]

\* find_latest_versions on the files the glob yields, in the order it yields
\* them.
find_latest_versions(listing) == ScanResult(ScanLoop(listing, <<>>, <<>>))

\* ---------------------------------------------------- delete_old_versions

\* The place of x in a list sorted newest first: before the first element that
\* is older than x, so after every element that compares equal to it.
RECURSIVE InsertNewestFirst(_, _)
InsertNewestFirst(sorted, x) ==
  IF sorted = <<>> THEN <<x>>
  ELSE IF Lt(Head(sorted)[2], x[2]) THEN <<x>> \o sorted
  ELSE <<Head(sorted)>> \o InsertNewestFirst(Tail(sorted), x)

\* The sort without reverse=True: oldest first, equal elements in their order.
RECURSIVE InsertOldestFirst(_, _)
InsertOldestFirst(sorted, x) ==
  IF sorted = <<>> THEN <<x>>
  ELSE IF Lt(x[2], Head(sorted)[2]) THEN <<x>> \o sorted
  ELSE <<Head(sorted)>> \o InsertOldestFirst(Tail(sorted), x)

RECURSIVE SortOldestFirst(_)
SortOldestFirst(files) ==
  IF files = <<>> THEN <<>>
  ELSE InsertOldestFirst(SortOldestFirst(SubSeq(files, 1, Len(files) - 1)),
                         files[Len(files)])

\* files.sort(key=lambda x: x[1], reverse=True) and sorted(..., reverse=True):
\* a stable sort by VersionInfo.__lt__, newest first; elements that compare
\* equal keep the order they had.
RECURSIVE SortNewestFirst(_)
SortNewestFirst(files) ==
  IF files = <<>> THEN <<>>
  ELSE InsertNewestFirst(SortNewestFirst(SubSeq(files, 1, Len(files) - 1)),
                         files[Len(files)])

\* files[:n] and files[n:] for n >= 1.
SliceTo(files, n) == SubSeq(files, 1, Min2(n, Len(files)))

SliceFrom(files, n) == SubSeq(files, n + 1, Len(files))

RECURSIVE SumLen(_)
SumLen(d) == IF d = <<>> THEN 0 ELSE Len(Head(d).files) + SumLen(Tail(d))

\* The paths of every list of a dict, in the order the dict is iterated.
RECURSIVE FlatPaths(_)
FlatPaths(d) ==
  IF d = <<>> THEN <<>>
  ELSE [k \in 1..Len(Head(d).files) |-> Head(d).files[k][1]] \o FlatPaths(Tail(d))

PathsOf(files) == {files[k][1] : k \in 1..Len(files)}

\* delete_old_versions after its call of find_latest_versions, with the sizes
\* left out: each list sorted in place, the files it will keep and the files to
\* delete per base name, and their count.
PlanVersions(found, versions_to_keep) ==
  LET sorted == [k \in 1..Len(found.files_by_base) |->
                   [base_name |-> found.files_by_base[k].base_name,
                    files |-> SortNewestFirst(found.files_by_base[k].files)]]
      files_to_keep == [k \in 1..Len(sorted) |->
                          [base_name |-> sorted[k].base_name,
                           files |-> SliceTo(sorted[k].files, versions_to_keep)]]
      files_to_delete == [k \in 1..Len(sorted) |->
                            [base_name |-> sorted[k].base_name,
                             files |-> SliceFrom(sorted[k].files, versions_to_keep)]]
  IN [raised |-> found.raised,
      files_by_base |-> sorted,
      unversioned_files |-> found.unversioned_files,
      files_to_keep |-> files_to_keep,
      files_to_delete |-> files_to_delete,
      total_files |-> SumLen(files_to_delete)]

\* delete_old_versions on the files the glob yields, in the order it yields them.
delete_old_versions(listing, versions_to_keep) ==
  PlanVersions(find_latest_versions(listing), versions_to_keep)

\* ------------------------------------------------------------- the state

VARIABLES
  pc,                  \* where the script is
  versions_to_keep,    \* main: the number of versions to keep
  i,                   \* main: the number of the directory being processed
  dir_files,           \* the files the current directory held when scanned
  files_by_base,       \* delete_old_versions: the groups, sorted newest first
  unversioned_files,   \* the files without a version
  files_to_keep,       \* delete_old_versions: "Will keep" per base name
  files_to_delete,     \* the files to delete per base name
  total_files,         \* the planned number of files to delete
  shown_keeping,       \* confirm_deletion: the paths listed under "Keeping"
  shown_deleting,      \* confirm_deletion: the paths listed under "Deleting"
  response,            \* confirm_deletion: the last answer typed, in lower case
  typed_number,        \* the text typed at the final sanity check
  unlinked,            \* the files of the current directory unlinked so far
  failed,              \* the files on which a filesystem call raised
  raised,              \* the exception that ended the script, or None
  ret,                 \* what process_directory returned
  cmp                  \* the versions compared, in the specification of __lt__

vars ==
  <<pc, versions_to_keep, i, dir_files,
    files_by_base, unversioned_files, files_to_keep, files_to_delete,
    total_files, shown_keeping, shown_deleting, response, typed_number,
    unlinked, failed, raised, ret, cmp>>

\* The variables of process_directory and of what it calls.
dir_vars ==
  <<dir_files, files_by_base, unversioned_files, files_to_keep,
    files_to_delete, total_files, shown_keeping, shown_deleting, response,
    typed_number, unlinked, failed, ret>>

\* What process_directory returns.
Returned(files_deleted, should_continue, had_files_to_delete) ==
  [files_deleted |-> files_deleted, should_continue |-> should_continue,
   had_files_to_delete |-> had_files_to_delete]

\* The variables of process_directory before it runs.
FreshDirectory ==
  /\ dir_files = {}
  /\ files_by_base = <<>>
  /\ unversioned_files = <<>>
  /\ files_to_keep = <<>>
  /\ files_to_delete = <<>>
  /\ total_files = 0
  /\ shown_keeping = {}
  /\ shown_deleting = {}
  /\ response = None
  /\ typed_number = <<>>
  /\ unlinked = {}
  /\ failed = {}
  /\ ret = Returned(0, TRUE, FALSE)

Init ==
  /\ pc = "main"
  /\ versions_to_keep = 0
  /\ i = 0
  /\ raised = None
  /\ cmp = [stage |-> "unused"]
  /\ FreshDirectory

\* ------------------------------------------------------------------ main

\* main up to its loop: the directory must exist; --versions, when given and not
\* 0, is the number of versions to keep, and else get_versions_to_keep asks until
\* it is given a number of at least 1; fewer than 1 ends the script.
Main ==
  /\ pc = "main"
  /\ \E is_dir \in BOOLEAN, args_versions \in (-1)..MaxKeep, asked \in 1..MaxKeep :
       LET keep == IF args_versions # 0 THEN args_versions ELSE asked
       IN IF ~is_dir \/ keep < 1
          THEN /\ pc' = "exit"
               /\ UNCHANGED <<versions_to_keep, i>>
          ELSE /\ pc' = "process"
               /\ versions_to_keep' = keep
               /\ i' = 1
  /\ UNCHANGED <<raised, cmp, dir_vars>>

\* The contents a directory may have.
DirContents == {S \in SUBSET Paths : Cardinality(S) <= MaxFiles}

\* process_directory to the return of delete_old_versions: the directory is
\* globbed in some order, scanned and planned. The ValueError of a mixed group
\* and the OSError of a size query on a file to delete are caught nowhere.
ScanAndPlan ==
  /\ pc = "process"
  /\ \E files \in DirContents :
       \E order \in Orders(Globbed(files)) :
         \E plan \in {delete_old_versions(order, versions_to_keep)} :
           \E stat_fails \in BOOLEAN :
              /\ dir_files' = files
              /\ stat_fails => plan.raised = None /\ plan.total_files > 0
              /\ IF plan.raised # None
                 THEN /\ pc' = "crashed"
                      /\ raised' = plan.raised
                      /\ UNCHANGED <<files_by_base, unversioned_files, files_to_keep,
                                     files_to_delete, total_files, failed>>
                 ELSE IF stat_fails
                 THEN /\ pc' = "crashed"
                      /\ raised' = "OSError"
                      /\ \E k \in 1..plan.total_files :
                           failed' = {FlatPaths(plan.files_to_delete)[k]}
                      /\ UNCHANGED <<files_by_base, unversioned_files, files_to_keep,
                                     files_to_delete, total_files>>
                 ELSE /\ pc' = "planned"
                      /\ files_by_base' = plan.files_by_base
                      /\ unversioned_files' = plan.unversioned_files
                      /\ files_to_keep' = plan.files_to_keep
                      /\ files_to_delete' = plan.files_to_delete
                      /\ total_files' = plan.total_files
                      /\ UNCHANGED <<raised, failed>>
  /\ UNCHANGED <<versions_to_keep, i, shown_keeping,
                 shown_deleting, response, typed_number, unlinked, ret, cmp>>

\* process_directory when nothing is to delete.
NoFilesToDelete ==
  /\ pc = "planned"
  /\ total_files = 0
  /\ ret' = Returned(0, TRUE, FALSE)
  /\ pc' = "returned"
  /\ UNCHANGED <<versions_to_keep, i, dir_files,
                 files_by_base, unversioned_files, files_to_keep, files_to_delete,
                 total_files, shown_keeping, shown_deleting, response,
                 typed_number, unlinked, failed, raised, cmp>>

\* -------------------------------------------------------- confirm_deletion

\* The paths confirm_deletion lists under "Keeping": of each list it is given,
\* sorted again, the first versions_to_keep.
ShownKeeping(to_delete, keep) ==
  UNION {PathsOf(SliceTo(SortNewestFirst(to_delete[k].files), keep)) :
           k \in 1..Len(to_delete)}

\* The paths confirm_deletion lists under "Deleting": the rest of each list.
ShownDeleting(to_delete, keep) ==
  UNION {PathsOf(SliceFrom(SortNewestFirst(to_delete[k].files), keep)) :
           k \in 1..Len(to_delete)}

\* confirm_deletion up to its prompt: the screen of files kept and deleted.
ConfirmScreen ==
  /\ pc = "planned"
  /\ total_files > 0
  /\ shown_keeping' = ShownKeeping(files_to_delete, versions_to_keep)
  /\ shown_deleting' = ShownDeleting(files_to_delete, versions_to_keep)
  /\ pc' = "prompt"
  /\ UNCHANGED <<versions_to_keep, i, dir_files,
                 files_by_base, unversioned_files, files_to_keep, files_to_delete,
                 total_files, response, typed_number, unlinked, failed, raised,
                 ret, cmp>>

\* What the user may type at the prompts, and str.lower and str.upper of it.
TypedResponses == {"Delete", "cancel", "y", "N"}

Lower(s) ==
  CASE s = "Delete" -> "delete"
    [] s = "N" -> "n"
    [] OTHER -> s

Upper(s) ==
  CASE s = "Delete" -> "DELETE"
    [] s = "cancel" -> "CANCEL"
    [] s = "y" -> "Y"
    [] OTHER -> s

\* str(n) for a number of one digit.
Str(n) == <<Digits[n + 1]>>

\* What the user may type at the final sanity check: the number asked for,
\* another number, or no number.
TypedNumbers(total) == {Str(total), Str(total + 1), <<"x">>}

\* The sanity check passing whenever the text typed is a number.
SanityCheckAnyNumber(typed, total) ==
  typed # <<>> /\ AllDigits(typed)

\* The final sanity check: int() of the text typed raises ValueError unless it is
\* a number, and the number must be the number of files to delete.
SanityCheck(typed, total) ==
  typed # <<>> /\ AllDigits(typed) /\ ParseInt(typed) = total

\* The prompt loop of confirm_deletion: 'cancel' returns False, 'delete' asks for
\* the number of files and returns whether it matches, anything else asks again.
ConfirmPrompt ==
  /\ pc = "prompt"
  /\ \E typed \in TypedResponses, number \in TypedNumbers(total_files) :
       /\ response' = Lower(typed)
       /\ IF Lower(typed) = "cancel"
          THEN pc' = "declined" /\ UNCHANGED typed_number
          ELSE IF Lower(typed) = "delete"
          THEN /\ typed_number' = number
               /\ pc' = IF SanityCheck(number, total_files)
                        THEN "confirmed" ELSE "declined"
          ELSE pc' = "prompt" /\ UNCHANGED typed_number
  /\ UNCHANGED <<versions_to_keep, i, dir_files,
                 files_by_base, unversioned_files, files_to_keep, files_to_delete,
                 total_files, shown_keeping, shown_deleting, unlinked, failed,
                 raised, ret, cmp>>

\* process_directory when confirm_deletion returned False.
DeletionCancelled ==
  /\ pc = "declined"
  /\ ret' = Returned(0, FALSE, TRUE)
  /\ pc' = "returned"
  /\ UNCHANGED <<versions_to_keep, i, dir_files,
                 files_by_base, unversioned_files, files_to_keep, files_to_delete,
                 total_files, shown_keeping, shown_deleting, response,
                 typed_number, unlinked, failed, raised, cmp>>

\* -------------------------------------------------------- perform_deletion

\* process_directory when confirm_deletion returned True: the sizes are summed
\* (twice), then every file of every list is unlinked in turn. A size query or
\* an unlink that raises OSError ends the script there: no handler catches it.
PerformDeletion ==
  /\ pc = "confirmed"
  /\ LET to_delete == FlatPaths(files_to_delete)
     IN \E fail_at \in 0..Len(to_delete), in_stat \in BOOLEAN :
          /\ in_stat => fail_at > 0
          /\ IF fail_at = 0
             THEN /\ unlinked' = {to_delete[k] : k \in 1..Len(to_delete)}
                  /\ ret' = Returned(total_files, TRUE, TRUE)
                  /\ pc' = "returned"
                  /\ UNCHANGED <<failed, raised>>
             ELSE /\ unlinked' = IF in_stat THEN {}
                                 ELSE {to_delete[k] : k \in 1..(fail_at - 1)}
                  /\ failed' = {to_delete[fail_at]}
                  /\ raised' = "OSError"
                  /\ pc' = "crashed"
                  /\ UNCHANGED ret
  /\ UNCHANGED <<versions_to_keep, i, dir_files,
                 files_by_base, unversioned_files, files_to_keep, files_to_delete,
                 total_files, shown_keeping, shown_deleting, response,
                 typed_number, cmp>>

\* ------------------------------------------------------ the loop of main

\* The next directory: the variables of process_directory start afresh.
NextDirectory ==
  /\ i' = i + 1
  /\ pc' = "process"
  /\ dir_files' = {}
  /\ files_by_base' = <<>>
  /\ unversioned_files' = <<>>
  /\ files_to_keep' = <<>>
  /\ files_to_delete' = <<>>
  /\ total_files' = 0
  /\ shown_keeping' = {}
  /\ shown_deleting' = {}
  /\ response' = None
  /\ typed_number' = <<>>
  /\ unlinked' = {}
  /\ failed' = {}
  /\ ret' = Returned(0, TRUE, FALSE)

\* The loop of main after process_directory returned: the stop when the
\* deletion was cancelled, the question when files were deleted and a
\* directory is left, and else the next directory or the end of the loop.
MainLoop ==
  /\ pc = "returned"
  /\ IF ~ret.should_continue
     THEN pc' = "summary" /\ UNCHANGED <<i, dir_vars>>
     ELSE IF ret.had_files_to_delete /\ i < NumDirs
     THEN pc' = "ask_continue" /\ UNCHANGED <<i, dir_vars>>
     ELSE IF i < NumDirs
     THEN NextDirectory
     ELSE pc' = "summary" /\ UNCHANGED <<i, dir_vars>>
  /\ UNCHANGED <<versions_to_keep, raised, cmp>>

\* The question between two directories: Y goes on, N stops, anything else asks
\* again.
ContinuePrompt ==
  /\ pc = "ask_continue"
  /\ \E typed \in TypedResponses :
       IF Upper(typed) = "Y"
          THEN NextDirectory
          ELSE /\ pc' = IF Upper(typed) = "N" THEN "summary" ELSE "ask_continue"
               /\ UNCHANGED <<i, dir_vars>>
  /\ UNCHANGED <<versions_to_keep, raised, cmp>>

\* The final summary.
FinalSummary ==
  /\ pc = "summary"
  /\ pc' = "done"
  /\ UNCHANGED <<versions_to_keep, i, raised, cmp, dir_vars>>

Next ==
  \/ Main
  \/ ScanAndPlan
  \/ NoFilesToDelete
  \/ ConfirmScreen
  \/ ConfirmPrompt
  \/ DeletionCancelled
  \/ PerformDeletion
  \/ MainLoop
  \/ ContinuePrompt
  \/ FinalSummary

Spec == Init /\ [][Next]_vars

\* ------------------------------------------- the specification of __lt__

\* The version strings compared: what parse_filename can hand to VersionInfo.
VersionStrings ==
  { <<"v","2","0","2","4","0","1","0","1">>,  \* v20240101
    <<"v","2","0","2","4","0","3","0","1">>,  \* v20240301
    <<"v","2","0","2","4","0","3","0","1","a">>,  \* v20240301a
    <<"v","2","0","2","4","0","3","0","1","b">>,  \* v20240301b
    <<"v","2","0","2","4","0","3","0","1","A">>,  \* v20240301A
    <<"v","2","0","2","4","0","3","0","1","0","0","0","0">>,  \* v202403010000
    <<"v","2","0","2","4","0","3","0","1","0","9","3","0">>,  \* v202403010930
    <<"v","2","0","2","4","1","3","0","1">>,  \* v20241301
    <<"_","v","1">>,  \* _v1
    <<"_","v","0","1">>,  \* _v01
    <<"_","v","2">>,  \* _v2
    <<"_","v","1","0">>   \* _v10
  }

InitLt ==
  /\ pc = "lt"
  /\ versions_to_keep = 0
  /\ i = 0
  /\ raised = None
  /\ FreshDirectory
  /\ \E a, b, c \in VersionStrings :
       cmp = [stage |-> "strings", strings |-> <<a, b, c>>]

\* VersionInfo(version_str) of each of the three strings.
Construct ==
  /\ pc = "lt"
  /\ cmp.stage = "strings"
  /\ LET built == [k \in 1..3 |-> VersionInfo(cmp.strings[k])]
     IN IF \E k \in 1..3 : built[k].raised # None
        THEN cmp' = [stage |-> "ValueError", strings |-> cmp.strings]
        ELSE cmp' = [stage |-> "versions", strings |-> cmp.strings,
                     versions |-> built]
  /\ UNCHANGED <<pc, versions_to_keep, i, raised,
                 dir_vars>>

\* x < y for every two of the three versions.
Compare ==
  /\ pc = "lt"
  /\ cmp.stage = "versions"
  /\ IF \E x, y \in 1..3 : LtRaises(cmp.versions[x], cmp.versions[y])
     THEN cmp' = [stage |-> "ValueError", strings |-> cmp.strings]
     ELSE cmp' = [stage |-> "compared", strings |-> cmp.strings,
                  versions |-> cmp.versions,
                  lt |-> [x \in 1..3 |->
                            [y \in 1..3 |-> Lt(cmp.versions[x], cmp.versions[y])]]]
  /\ UNCHANGED <<pc, versions_to_keep, i, raised,
                 dir_vars>>

NextLt ==
  \/ Construct
  \/ Compare

SpecLt == InitLt /\ [][NextLt]_vars

\* ------------------------------------------------------------ properties

\* delete_old_versions returned its plan to process_directory.
Planned ==
  pc \in {"planned", "prompt", "declined", "confirmed", "returned",
          "ask_continue", "summary", "done"}

\* The versioned files of the scanned directory with the base name given: the
\* files the glob yields whose name parses to it with a version VersionInfo
\* accepts.
GroupOf(base_name) ==
  {f \in Globbed(dir_files) :
     /\ Parsed[f].base = base_name
     /\ Parsed[f].version # NoVersion
     /\ Classified[f].raised = None}

KeptPaths == UNION {PathsOf(files_to_keep[k].files) : k \in 1..Len(files_to_keep)}

DeletePaths == UNION {PathsOf(files_to_delete[k].files) : k \in 1..Len(files_to_delete)}

GroupedPaths == UNION {PathsOf(files_by_base[k].files) : k \in 1..Len(files_by_base)}

UnversionedPaths == {unversioned_files[k] : k \in 1..Len(unversioned_files)}

\* C1: for every group of M versioned files of one base name and the keep count
\* K >= 1, the plan keeps exactly min(K, M) files and deletes the other
\* M - min(K, M); the two lists are disjoint and cover the group, no file to
\* delete is newer than a file kept, and with M <= K nothing is deleted.
C1_KeepDeletePartition ==
  Planned =>
    /\ Len(files_to_keep) = Len(files_by_base)
    /\ Len(files_to_delete) = Len(files_by_base)
    /\ \A f \in Globbed(dir_files) :
         (Parsed[f].version # NoVersion /\ Classified[f].raised = None)
           => Parsed[f].base \in DictKeys(files_by_base)
    /\ \A k \in 1..Len(files_by_base) :
         LET group == GroupOf(files_by_base[k].base_name)
             M == Cardinality(group)
             K == versions_to_keep
             keep == files_to_keep[k].files
             del == files_to_delete[k].files
         IN /\ K >= 1
            /\ M >= 1
            /\ files_to_keep[k].base_name = files_by_base[k].base_name
            /\ files_to_delete[k].base_name = files_by_base[k].base_name
            /\ Len(keep) = Min2(K, M)
            /\ Len(del) = M - Min2(K, M)
            /\ Cardinality(PathsOf(keep)) = Len(keep)
            /\ Cardinality(PathsOf(del)) = Len(del)
            /\ PathsOf(keep) \cap PathsOf(del) = {}
            /\ PathsOf(keep) \cup PathsOf(del) = group
            /\ \A x \in 1..Len(keep), y \in 1..Len(del) : ~Lt(keep[x][2], del[y][2])
            /\ M <= K => del = <<>> /\ PathsOf(keep) = group

\* C1's case: a group of three files with two versions kept, the oldest of the
\* three being the one to delete.
C1_Witness ==
  /\ Planned
  /\ versions_to_keep = 2
  /\ \E k \in 1..Len(files_by_base) :
       /\ Len(files_by_base[k].files) = 3
       /\ Len(files_to_delete[k].files) = 1
       /\ \E x \in 1..2 :
            Lt(files_to_delete[k].files[1][2], files_to_keep[k].files[x][2])

\* The text typed at the sanity check is the decimal number n.
TypedIs(n) ==
  typed_number # <<>> /\ AllDigits(typed_number) /\ ParseInt(typed_number) = n

\* C2: no file of a directory is unlinked unless, for that directory and after
\* its plan was computed, the user answered 'delete' and then typed the planned
\* number of files to delete; after 'cancel', a number that does not match or a
\* text that is no number, every file of the directory is in place.
C2_UnlinkOnlyAfterConfirmation ==
  /\ unlinked # {} =>
       /\ response = "delete"
       /\ TypedIs(total_files)
       /\ total_files = SumLen(files_to_delete)
       /\ total_files > 0
       /\ unlinked \subseteq DeletePaths
       /\ unlinked \subseteq dir_files
  /\ (response = "cancel" \/ (response = "delete" /\ ~TypedIs(total_files)))
       => unlinked = {}
  /\ pc \in {"main", "process", "planned", "prompt", "declined", "confirmed", "exit"}
       => unlinked = {}

\* C2's case: process_directory returned after the files of the plan were
\* unlinked, the user having typed 'delete' and the matching number.
C2_Witness ==
  /\ unlinked # {}
  /\ response = "delete"
  /\ TypedIs(total_files)
  /\ pc = "returned"

\* The stem of a globbed file: its name without the dot and the three letters.
StemOf(f) == SubSeq(PathName(f), 1, Len(PathName(f)) - 4)

\* A date token: v, eight digits, optionally four more, optionally one letter.
IsDateToken(t) ==
  /\ Len(t) >= 9
  /\ t[1] = "v"
  /\ \A k \in 2..9 : IsDigit(t[k])
  /\ \/ Len(t) = 9
     \/ Len(t) = 10 /\ IsAlpha(t[10])
     \/ Len(t) = 13 /\ \A k \in 10..13 : IsDigit(t[k])
     \/ Len(t) = 14 /\ (\A k \in 10..13 : IsDigit(t[k])) /\ IsAlpha(t[14])

\* A sequence token: _v and one or more digits.
IsSequenceToken(t) ==
  /\ Len(t) >= 3
  /\ t[1] = "_"
  /\ t[2] = "v"
  /\ \A k \in 3..Len(t) : IsDigit(t[k])

\* No version token ends the stem.
NoVersionToken(stem) ==
  \A k \in 1..Len(stem) :
    LET t == SubSeq(stem, k, Len(stem))
    IN ~IsDateToken(t) /\ ~IsSequenceToken(t)

\* C3: a scanned file whose stem ends in no version token is in the unversioned
\* list, in no group and in no keep or delete list, and is never unlinked.
C3_UnversionedNeverPlanned ==
  \A f \in Globbed(dir_files) :
    NoVersionToken(StemOf(f)) =>
      /\ Planned => f \in UnversionedPaths
      /\ f \notin GroupedPaths
      /\ f \notin KeptPaths
      /\ f \notin DeletePaths
      /\ f \notin unlinked

\* C3's case: a directory with a stem ending in a date and two letters, whose
\* other files were deleted while it stayed in the unversioned list.
C3_Witness ==
  /\ \E f \in Globbed(dir_files) :
       /\ NoVersionToken(StemOf(f))
       /\ number_search(StemOf(f)) = 0
       /\ date_search_unanchored(StemOf(f)) > 0
       /\ f \in UnversionedPaths
  /\ unlinked # {}
  /\ pc = "returned"

\* The base name without the underscore that ends it: the name of the asset.
AssetOf(f) ==
  LET base == Parsed[f].base
  IN IF base # <<>> /\ base[Len(base)] = "_"
     THEN SubSeq(base, 1, Len(base) - 1) ELSE base

HasDateVersion(f) ==
  /\ Parsed[f].version # NoVersion
  /\ Classified[f].raised = None
  /\ Classified[f].is_date_version

HasSequenceVersion(f) ==
  /\ Parsed[f].version # NoVersion
  /\ Classified[f].raised = None
  /\ Classified[f].is_numeric_version

\* C4: when a date-versioned file and a sequence-versioned file of the same
\* asset are both in the directory, as a_v20240101.mov and a_v2.mov are, the
\* scan raises the mixed-version error and returns no plan.
C4_MixedFamiliesRaise ==
  Planned =>
    ~ \E f, g \in Globbed(dir_files) :
        HasDateVersion(f) /\ HasSequenceVersion(g) /\ AssetOf(f) = AssetOf(g)

\* C5: when the scan of a directory fails on a mixed group, nothing in it is
\* deleted and the run is not over: it goes on to the next directories and to
\* the final summary.
C5_MixedScanSkipsOnlyThatDirectory ==
  raised = "ValueError" => (unlinked = {} /\ pc # "crashed")

\* C6: a filesystem error on one file during the deletion of a confirmed plan
\* is recorded for that file only: every other file of the delete lists is
\* unlinked all the same.
C6_FailureDoesNotStopDeletion ==
  (raised = "OSError" /\ response = "delete") =>
    \A f \in DeletePaths : f \in unlinked \/ f \in failed

\* C7: the files to delete are the same whatever order the directory listing
\* yields the files in.
C7_PartitionIndependentOfListingOrder ==
  Planned =>
    \A order \in Orders(Globbed(dir_files)) :
      \A plan \in {delete_old_versions(order, versions_to_keep)} :
        UNION {PathsOf(plan.files_to_delete[k].files) :
                 k \in 1..Len(plan.files_to_delete)} = DeletePaths

\* The version string of the file is one VersionInfo rejects.
Rejected(f) ==
  Parsed[f].version # NoVersion /\ Classified[f].raised # None

\* The files the glob yields whose version string is not rejected.
NotRejected == {f \in Globbed(dir_files) : ~Rejected(f)}

\* C8: a file whose version string fails classification is skipped alone: it is
\* in no group, not in the unversioned list and in no delete list, and the
\* other files are grouped and planned as if it were absent: the plan is one that
\* the directory without the file gives.
C8_RejectedFileSkippedAlone ==
  /\ \A f \in Globbed(dir_files) :
       Rejected(f) =>
         /\ f \notin GroupedPaths
         /\ f \notin UnversionedPaths
         /\ f \notin KeptPaths
         /\ f \notin DeletePaths
         /\ f \notin unlinked
  /\ Planned =>
       \E order \in Orders(NotRejected) :
         \E without \in {delete_old_versions(order, versions_to_keep)} :
           /\ without.raised = None
           /\ files_by_base = without.files_by_base
           /\ unversioned_files = without.unversioned_files
           /\ files_to_keep = without.files_to_keep
           /\ files_to_delete = without.files_to_delete
           /\ total_files = without.total_files
  /\ (pc = "crashed" /\ raised = "ValueError") =>
       \A order \in Orders(NotRejected) :
         delete_old_versions(order, versions_to_keep).raised = "ValueError"

\* C8's case: a directory with a month 13 file and two accepted versions of its
\* base name, the older of which was deleted.
C8_Witness ==
  /\ \E f \in Globbed(dir_files) : Rejected(f)
  /\ Cardinality(Globbed(dir_files)) = 3
  /\ total_files = 1
  /\ unlinked # {}
  /\ pc = "returned"

\* The minutes that order two dates in time.
Minutes(date) ==
  (((date[1] * 12 + date[2]) * 31 + date[3]) * 24 + date[4]) * 60 + date[5]

\* C9: within a family __lt__ is a strict total order: of a < b, a = b (the
\* same point in time and the same letter, or the same number) and b < a exactly
\* one holds, and the relation is transitive; two dates compare by the date
\* first and, on the same date, a version without a letter is older than any
\* with one; two sequence versions compare by their numbers.
C9_LtStrictTotalOrder ==
  cmp.stage = "compared" =>
    \A x, y, z \in 1..3 :
      LET a == cmp.versions[x]
          b == cmp.versions[y]
          lt == cmp.lt[x][y]
          gt == cmp.lt[y][x]
          eq == IF a.is_date_version
                THEN Minutes(a.date) = Minutes(b.date) /\ a.letter = b.letter
                ELSE a.version_num = b.version_num
      IN /\ \/ lt /\ ~eq /\ ~gt
            \/ ~lt /\ eq /\ ~gt
            \/ ~lt /\ ~eq /\ gt
         /\ (lt /\ cmp.lt[y][z]) => cmp.lt[x][z]
         /\ a.is_date_version =>
              /\ b.is_date_version
              /\ Minutes(a.date) < Minutes(b.date) => lt
              /\ (Minutes(a.date) = Minutes(b.date) /\ a.letter = None
                    /\ b.letter # None) => lt
              /\ (Minutes(a.date) = Minutes(b.date) /\ a.letter # None
                    /\ b.letter # None) => (lt <=> Ord(a.letter) < Ord(b.letter))
         /\ a.is_numeric_version =>
              /\ b.is_numeric_version
              /\ lt <=> a.version_num < b.version_num

\* C9's case: three date versions compared, two of the same point in time of
\* which the one without a letter is the older, and a third of an earlier date.
C9_Witness ==
  /\ cmp.stage = "compared"
  /\ cmp.versions[1].is_date_version
  /\ cmp.versions[1].date = cmp.versions[2].date
  /\ cmp.versions[1].letter = None
  /\ cmp.versions[2].letter # None
  /\ cmp.lt[1][2]
  /\ cmp.lt[3][1]
  /\ cmp.lt[3][2]

\* C10: the files confirm_deletion lists under 'Deleting' are the files
\* perform_deletion unlinks once the user confirms, and no file it lists under
\* 'Keeping' is unlinked.
C10_ScreenShowsWhatIsDeleted ==
  (pc = "returned" /\ ret.files_deleted > 0) =>
    /\ shown_deleting = unlinked
    /\ shown_keeping \cap unlinked = {}

\* The extension of the file is exactly .mov or .png.
IsMovOrPng(f) ==
  splitext(PathName(f))[2] \in {<<".", "m", "o", "v">>, <<".", "p", "n", "g">>}

\* C11: find_latest_versions scans only .mov and .png files: a file of the
\* directory whose extension is anything else is in no group and not in the
\* unversioned list, in no keep or delete list, and is never unlinked.
C11_OnlyMovAndPngScanned ==
  \A f \in dir_files :
    ~IsMovOrPng(f) =>
      /\ f \notin GroupedPaths
      /\ f \notin UnversionedPaths
      /\ f \notin KeptPaths
      /\ f \notin DeletePaths
      /\ f \notin unlinked

====
